---- MODULE Spec2Model ----
(***************************************************************************)
(* BookStore-API: five Lambda handlers (createBook, getBook, updateBook,   *)
(* deleteBook, listBook) over one DynamoDB table keyed on ISBN.            *)
(*                                                                         *)
(* JSON values are written as strings: a JSON string is the string itself, *)
(* the JSON literals true, false and null are "#true", "#false", "#null".  *)
(* A JSON object is a function from member names to JSON values.  A raw    *)
(* request body is the member list of its text, in textual order, with a   *)
(* flag telling whether the text is complete.                              *)
(***************************************************************************)
EXTENDS Naturals, Sequences, FiniteSets, Bags

\* ------------------------------------------------------------------ bounds
\* how many identifiers v4() can hand out in one run
MaxUuids == 2
\* how many requests one run receives
MaxRequests == 4

VARIABLES
    table,      \* BooksTable: ISBN -> item, its domain the stored keys
    assigned,   \* identifiers v4() has returned so far
    pending,    \* bag of the invocations of updateBook/deleteBook awaiting their
                \* second storage call (two invocations may carry the same request)
    last,       \* the request completed last, with its response and its storage calls
    pre,        \* BooksTable as it was before the step that completed `last`
    nCreated,   \* creates answered 201 so far
    nDeleted,   \* deletes answered 204 so far
    gone,       \* ids for which some delete was answered 204
    overlapped, \* whether some request started while another was in flight
    nRequests   \* requests received so far

vars == <<table, assigned, pending, last, pre, nCreated, nDeleted, gone, overlapped,
          nRequests>>

\* ------------------------------------------------------------- identifiers
UuidNames == <<"u1", "u2", "u3", "u4">>
UUIDs == {UuidNames[i] : i \in 1..MaxUuids}
\* ids a client may put in the path: every uuid, and one that was never issued
PathIds == UUIDs \cup {"nope"}

\* --------------------------------------------------------------- constants
tableName == "BooksTable"
headers == {<<"content-type", "application/json">>}
NoHeaders == {}

\* ------------------------------------------------------------- JSON values
Literals == {"#true", "#false", "#null", "#undefined", "#InvalidDate"}
IsoDates == {"2020-01-01", "2021-05-05"}

Member(k, v) == [k |-> k, v |-> v]
Text(root, members, closed) == [root |-> root, members |-> members, closed |-> closed]

\* event.body of a request that carries no body
NoBody == Text("", <<>>, FALSE)

ValidBodyA ==
    Text("object",
         << Member("author", "Ann"), Member("title", "T1"),
            Member("description", "D1"),
            Member("publication_date", "2020-01-01"),
            Member("available", "#true") >>, TRUE)

\* valid too: a duplicate member, a boolean sent as the string "false", an
\* extra member, and an ISBN member supplied by the client
ValidBodyB ==
    Text("object",
         << Member("author", "Zed"), Member("ISBN", "u1"),
            Member("title", "T2"), Member("description", "D2"),
            Member("publication_date", "2021-05-05"),
            Member("available", "false"), Member("pages", "300"),
            Member("author", "Bob") >>, TRUE)

\* four violations: title empty, description null, publication_date missing,
\* available not a boolean
InvalidBodyFour ==
    Text("object",
         << Member("available", "yes"), Member("title", ""),
            Member("author", "Ann"), Member("description", "#null"),
            Member("ISBN", "u2") >>, TRUE)

\* parseable JSON that is not an object
NullBody == Text("null", <<>>, TRUE)

\* text cut off in the middle
TruncatedBody ==
    Text("object", << Member("author", "Ann"), Member("title", "T1") >>, FALSE)

Bodies == {ValidBodyA, ValidBodyB, InvalidBodyFour, NullBody, TruncatedBody}

\* ------------------------------------------------------------- JSON.parse
Keys(members) == {members[i].k : i \in 1..Len(members)}

LastIndex(members, k) ==
    CHOOSE i \in 1..Len(members) :
        /\ members[i].k = k
        /\ \A j \in (i+1)..Len(members) : members[j].k # k

\* a later member of the same name replaces an earlier one
JSON_parse(body) ==
    IF ~body.closed THEN [threw |-> "SyntaxError"]
    ELSE IF body.root = "null" THEN [threw |-> "none", type |-> "null"]
    ELSE [threw |-> "none", type |-> "object",
          value |-> [k \in Keys(body.members) |->
                        body.members[LastIndex(body.members, k)].v]]

\* ---------------------------------------------------------------- schema
schema ==
    << [name |-> "author", type |-> "string"],
       [name |-> "title", type |-> "string"],
       [name |-> "description", type |-> "string"],
       [name |-> "publication_date", type |-> "date"],
       [name |-> "available", type |-> "bool"] >>

RequiredFields == {schema[i].name : i \in 1..Len(schema)}

\* yup casts before it tests (validate is not strict)
Cast(type, v) ==
    IF v \in {"#undefined", "#null"} THEN v
    ELSE IF type = "string" THEN
        (IF v = "#true" THEN "true" ELSE IF v = "#false" THEN "false" ELSE v)
    ELSE IF type = "bool" THEN
        (IF v = "true" THEN "#true" ELSE IF v = "false" THEN "#false" ELSE v)
    ELSE (IF v \in IsoDates THEN v ELSE "#InvalidDate")

IsType(type, v) ==
    IF type = "string" THEN v \notin Literals
    ELSE IF type = "bool" THEN v \in {"#true", "#false"}
    ELSE v \in IsoDates

\* the messages of one field: none or one
FieldErrors(obj, fld) ==
    LET raw == IF fld.name \in DOMAIN obj THEN obj[fld.name] ELSE "#undefined"
        c == Cast(fld.type, raw)
    IN  IF c = "#undefined" THEN << <<fld.name, "required">> >>
        ELSE IF ~IsType(fld.type, c) THEN << <<fld.name, "typeError">> >>
        ELSE IF fld.type = "string" /\ c = "" THEN << <<fld.name, "required">> >>
        ELSE << >>

\* abortEarly left at its default: the first message only
CollectErrors_AbortEarly(obj, i) ==
    LET all == [j \in 1..Len(schema) |-> FieldErrors(obj, schema[j])]
        bad == {j \in i..Len(schema) : all[j] # << >>}
    IN  IF bad = {} THEN << >>
        ELSE all[CHOOSE j \in bad : \A h \in bad : j <= h]

RECURSIVE CollectErrors(_, _)
\* abortEarly: false - the messages of all fields, in schema order
CollectErrors(obj, i) ==
    IF i > Len(schema) THEN << >>
    ELSE FieldErrors(obj, schema[i]) \o CollectErrors(obj, i + 1)

\* schema.validate(reqBody, { abortEarly: false })
validate(parsed) ==
    LET errors == IF parsed.type = "object" THEN CollectErrors(parsed.value, 1)
                  ELSE << <<"this", "typeError">> >>
    IN  IF errors = << >> THEN [threw |-> "none"]
        ELSE [threw |-> "ValidationError", errors |-> errors]

\* ------------------------------------------------------------ docClient
Put(t, item) ==
    [k \in DOMAIN t \cup {item["ISBN"]} |-> IF k = item["ISBN"] THEN item ELSE t[k]]

Get(t, id) ==
    IF id \in DOMAIN t THEN [found |-> TRUE, Item |-> t[id]] ELSE [found |-> FALSE]

\* the delete call given no Key condition: it empties the table
Delete_All(t, id) == << >>

Delete(t, id) == [k \in DOMAIN t \ {id} |-> t[k]]

\* a scan that stops after its first page of one item
Scan_FirstPage(t) ==
    IF DOMAIN t = {} THEN {} ELSE {t[CHOOSE k \in DOMAIN t : TRUE]}

Scan(t) == {t[k] : k \in DOMAIN t}

\* --------------------------------------------------------------- helpers
HttpError(statusCode, body) ==
    [threw |-> "HttpError", statusCode |-> statusCode, message |-> body]

\* the check of output.Item left out
fetchBookById_NoCheck(t, id) ==
    LET output == Get(t, id)
    IN  [threw |-> "none", Item |-> IF output.found THEN output.Item ELSE << >>]

fetchBookById(t, id) ==
    LET output == Get(t, id)
    IN  IF ~output.found THEN HttpError(404, [error |-> "not found"])
        ELSE [threw |-> "none", Item |-> output.Item]

Response(statusCode, hdrs, body) ==
    [statusCode |-> statusCode, headers |-> hdrs, body |-> body]

\* an error that handleError throws again leaves the handler unhandled
Unhandled == Response(500, NoHeaders, "unhandled")

handleError(e) ==
    IF e.threw = "ValidationError" THEN Response(400, headers, [errors |-> e.errors])
    ELSE IF e.threw = "SyntaxError" THEN
        Response(400, headers, [error |-> "invalid request body format"])
    ELSE IF e.threw = "HttpError" THEN Response(e.statusCode, headers, e.message)
    ELSE Unhandled

\* { ISBN: id, ...reqBody }: a member ISBN of the body wins
Book_BodyWins(reqBody, id) ==
    [k \in DOMAIN reqBody \cup {"ISBN"} |->
        IF k \in DOMAIN reqBody THEN reqBody[k] ELSE id]

\* { ...reqBody, ISBN: id }
Book(reqBody, id) ==
    [k \in DOMAIN reqBody \cup {"ISBN"} |-> IF k = "ISBN" THEN id ELSE reqBody[k]]

\* parse and validate, as the first lines of createBook and the middle of updateBook
ParseAndValidate(body) ==
    LET reqBody == JSON_parse(body)
    IN  IF reqBody.threw # "none" THEN reqBody
        ELSE LET v == validate(reqBody)
             IN  IF v.threw # "none" THEN v
                 ELSE [threw |-> "none", reqBody |-> reqBody.value]

Accepted(body) == ParseAndValidate(body).threw = "none"

\* ---------------------------------------------------------------- handlers
\* each returns the response, the table after it, and the storage calls made
Outcome(response, t, calls) == [response |-> response, table |-> t, calls |-> calls]

createBook(t, body, uuid) ==
    LET r == ParseAndValidate(body)
    IN  IF r.threw # "none" THEN Outcome(handleError(r), t, 0)
        ELSE LET book == Book(r.reqBody, uuid)
             IN  Outcome(Response(201, headers, book), Put(t, book), 1)

getBook(t, id) ==
    LET r == fetchBookById(t, id)
    IN  IF r.threw # "none" THEN Outcome(handleError(r), t, 1)
        ELSE Outcome(Response(200, headers, r.Item), t, 1)

\* the new members laid over the item read before: a merge
updateBookPut_Merge(t, id, body) ==
    LET r == ParseAndValidate(body)
    IN  IF r.threw # "none" THEN Outcome(handleError(r), t, 1)
        ELSE LET old == IF id \in DOMAIN t THEN t[id] ELSE << >>
                 book == [k \in DOMAIN old \cup DOMAIN r.reqBody \cup {"ISBN"} |->
                            IF k = "ISBN" THEN id
                            ELSE IF k \in DOMAIN r.reqBody THEN r.reqBody[k]
                            ELSE old[k]]
             IN  Outcome(Response(200, headers, book), Put(t, book), 2)

\* schema.validate left out of updateBook
updateBookPut_NoValidate(t, id, body) ==
    LET reqBody == JSON_parse(body)
    IN  IF reqBody.threw # "none" THEN Outcome(handleError(reqBody), t, 1)
        ELSE LET book == Book(IF reqBody.type = "object" THEN reqBody.value ELSE << >>, id)
             IN  Outcome(Response(200, headers, book), Put(t, book), 2)

\* the item read back after the put
updateBookPut_ReadBack(t, id, body) ==
    LET r == ParseAndValidate(body)
    IN  IF r.threw # "none" THEN Outcome(handleError(r), t, 1)
        ELSE LET book == Book(r.reqBody, id)
             IN  Outcome(Response(200, headers, Put(t, book)[id]), Put(t, book), 3)

\* updateBook after fetchBookById has returned an item
updateBookPut(t, id, body) ==
    LET r == ParseAndValidate(body)
    IN  IF r.threw # "none" THEN Outcome(handleError(r), t, 1)
        ELSE LET book == Book(r.reqBody, id)
             IN  Outcome(Response(200, headers, book), Put(t, book), 2)

\* deleteBook after fetchBookById has returned an item
deleteBookDelete(t, id) ==
    Outcome(Response(204, NoHeaders, "Record deleted successfully "), Delete(t, id), 2)

listBook(t) == Outcome(Response(200, headers, Scan(t)), t, 1)

\* ------------------------------------------------------------------ state
Request(op, id, body) == [op |-> op, id |-> id, body |-> body]

Completed(op, id, body, out) ==
    [op |-> op, id |-> id, body |-> body, response |-> out.response, calls |-> out.calls]

Init ==
    /\ table = << >>
    /\ assigned = {}
    /\ pending = EmptyBag
    /\ last = [op |-> "none", id |-> "", body |-> NoBody,
               response |-> Response(0, NoHeaders, ""), calls |-> 0]
    /\ pre = << >>
    /\ nCreated = 0
    /\ nDeleted = 0
    /\ gone = {}
    /\ overlapped = FALSE
    /\ nRequests = 0

\* a request is received: it overlaps the invocations in flight, if any
Start ==
    /\ nRequests < MaxRequests
    /\ nRequests' = nRequests + 1
    /\ overlapped' = (overlapped \/ pending # EmptyBag)

\* the step that answers a request
Complete(op, id, body, out) ==
    /\ last' = Completed(op, id, body, out)
    /\ pre' = table
    /\ table' = out.table

\* v4(): some identifier not returned before
v4 == UUIDs \ assigned

\* POST /book
CreateBook(body) ==
    IF Accepted(body)
    THEN \E uuid \in v4 :
            LET out == createBook(table, body, uuid)
            IN  /\ Complete("create", "", body, out)
                /\ assigned' = assigned \cup {out.response.body["ISBN"]}
                /\ nCreated' = nCreated + 1
                /\ Start
                /\ UNCHANGED <<pending, nDeleted, gone>>
    ELSE /\ Complete("create", "", body, createBook(table, body, ""))
         /\ Start
         /\ UNCHANGED <<assigned, pending, nCreated, nDeleted, gone>>

\* GET /book/{id}
GetBook(id) ==
    /\ Complete("get", id, NoBody, getBook(table, id))
    /\ Start
    /\ UNCHANGED <<assigned, pending, nCreated, nDeleted, gone>>

\* JSON.parse and schema.validate moved in front of fetchBookById
UpdateBookFetch_ValidateFirst(id, body) ==
    LET v == ParseAndValidate(body)
        r == IF v.threw # "none" THEN v ELSE fetchBookById(table, id)
    IN  IF r.threw # "none"
        THEN /\ Complete("update", id, body,
                         Outcome(handleError(r), table, IF v.threw # "none" THEN 0 ELSE 1))
             /\ Start
             /\ UNCHANGED <<assigned, pending, nCreated, nDeleted, gone>>
        ELSE /\ pending' = pending (+) SetToBag({Request("update", id, body)})
             /\ Start
             /\ UNCHANGED <<table, assigned, last, pre, nCreated, nDeleted, gone>>

\* PUT /book/{id}, up to the return of fetchBookById
UpdateBookFetch(id, body) ==
    LET r == fetchBookById(table, id)
    IN  IF r.threw # "none"
        THEN /\ Complete("update", id, body, Outcome(handleError(r), table, 1))
             /\ Start
             /\ UNCHANGED <<assigned, pending, nCreated, nDeleted, gone>>
        ELSE /\ pending' = pending (+) SetToBag({Request("update", id, body)})
             /\ Start
             /\ UNCHANGED <<table, assigned, last, pre, nCreated, nDeleted, gone>>

\* PUT /book/{id}, from JSON.parse to the response
UpdateBookPut(req) ==
    /\ BagIn(req, pending)
    /\ req.op = "update"
    /\ Complete("update", req.id, req.body, updateBookPut(table, req.id, req.body))
    /\ pending' = pending (-) SetToBag({req})
    /\ UNCHANGED <<assigned, nCreated, nDeleted, gone, overlapped, nRequests>>

\* DELETE /book/{id}, up to the return of fetchBookById
DeleteBookFetch(id) ==
    LET r == fetchBookById(table, id)
    IN  IF r.threw # "none"
        THEN /\ Complete("delete", id, NoBody, Outcome(handleError(r), table, 1))
             /\ Start
             /\ UNCHANGED <<assigned, pending, nCreated, nDeleted, gone>>
        ELSE /\ pending' = pending (+) SetToBag({Request("delete", id, NoBody)})
             /\ Start
             /\ UNCHANGED <<table, assigned, last, pre, nCreated, nDeleted, gone>>

\* DELETE /book/{id}, the delete call and the response
DeleteBookDelete(req) ==
    /\ BagIn(req, pending)
    /\ req.op = "delete"
    /\ Complete("delete", req.id, NoBody, deleteBookDelete(table, req.id))
    /\ pending' = pending (-) SetToBag({req})
    /\ nDeleted' = nDeleted + 1
    /\ gone' = gone \cup {req.id}
    /\ UNCHANGED <<assigned, nCreated, overlapped, nRequests>>

\* GET /books
ListBook ==
    /\ Complete("list", "", NoBody, listBook(table))
    /\ Start
    /\ UNCHANGED <<assigned, pending, nCreated, nDeleted, gone>>

\* Lambda runs invocations concurrently: any interleaving of the storage calls
Next ==
    \/ \E body \in Bodies : CreateBook(body)
    \/ \E id \in PathIds : GetBook(id)
    \/ \E id \in PathIds, body \in Bodies : UpdateBookFetch(id, body)
    \/ \E req \in BagToSet(pending) : UpdateBookPut(req)
    \/ \E id \in PathIds : DeleteBookFetch(id)
    \/ \E req \in BagToSet(pending) : DeleteBookDelete(req)
    \/ ListBook

Spec == Init /\ [][Next]_vars

\* ------------------------------------------------------------------ claims
\* what a body text submits: for each member name, the value of its last member
Submitted(body) ==
    [k \in Keys(body.members) |->
        CHOOSE v \in {body.members[i].v : i \in 1..Len(body.members)} :
            \E i \in 1..Len(body.members) :
                /\ body.members[i] = Member(k, v)
                /\ \A j \in 1..Len(body.members) : body.members[j].k = k => j <= i]

\* the required fields a submitted object violates the schema on
Violations(obj) ==
    {f \in {"author", "title", "description"} :
        f \notin DOMAIN obj \/ obj[f] \in {"#null", ""}}
    \cup {f \in {"publication_date"} : f \notin DOMAIN obj \/ obj[f] \notin IsoDates}
    \cup {f \in {"available"} :
            f \notin DOMAIN obj \/ obj[f] \notin {"#true", "#false", "true", "false"}}

IsObjectText(body) == body.closed /\ body.root = "object"
ValidPayload(body) == IsObjectText(body) /\ Violations(Submitted(body)) = {}

\* the item equals the submitted fields with ISBN set to id
IsBookOf(item, body, id) ==
    /\ DOMAIN item = DOMAIN Submitted(body) \cup {"ISBN"}
    /\ item["ISBN"] = id
    /\ \A k \in DOMAIN Submitted(body) \ {"ISBN"} : item[k] = Submitted(body)[k]

\* t2 is t1 with the item under id replaced or added, nothing else touched
OthersUnchanged(t1, t2, id) ==
    /\ DOMAIN t2 \ {id} = DOMAIN t1 \ {id}
    /\ \A k \in DOMAIN t1 \ {id} : t2[k] = t1[k]

\* C1: a create with a valid payload is answered 201 with the submitted fields
\* plus an ISBN no earlier create was given (an ISBN member of the body is
\* overridden), and the table then holds that record under that ISBN.
C1_CreateAssignsFreshIsbn ==
    /\ Cardinality(assigned) = nCreated
    /\ (last.op = "create" /\ ValidPayload(last.body)) =>
        /\ last.response.statusCode = 201
        /\ last.response.headers = headers
        /\ LET book == last.response.body
           IN  /\ "ISBN" \in DOMAIN book
               /\ IsBookOf(book, last.body, book["ISBN"])
               /\ book["ISBN"] \in assigned
               /\ book["ISBN"] \notin DOMAIN pre
               /\ book["ISBN"] \in DOMAIN table
               /\ table[book["ISBN"]] = book
               /\ OthersUnchanged(pre, table, book["ISBN"])

\* the second create of the run, its body carrying an ISBN member of its own
\* that is not the one it was given
C1_Witness ==
    /\ last.op = "create"
    /\ last.response.statusCode = 201
    /\ nCreated = 2
    /\ "ISBN" \in DOMAIN Submitted(last.body)
    /\ Submitted(last.body)["ISBN"] # last.response.body["ISBN"]
    /\ Submitted(last.body)["ISBN"] \in DOMAIN pre

\* C2: getBook answers 200 with the stored record when one is stored under the
\* id, 404 {"error": "not found"} when none is, and leaves the table alone.
C2_GetReturnsStoredOrNotFound ==
    last.op = "get" =>
        /\ table = pre
        /\ last.response.headers = headers
        /\ IF last.id \in DOMAIN pre
           THEN /\ last.response.statusCode = 200
                /\ last.response.body = pre[last.id]
           ELSE /\ last.response.statusCode = 404
                /\ last.response.body = [error |-> "not found"]

\* a get answered 200 while two different records are stored
C2_Witness ==
    /\ last.op = "get"
    /\ last.response.statusCode = 200
    /\ Cardinality(DOMAIN table) = 2
    /\ \A k \in DOMAIN table \ {last.id} : table[k] # last.response.body

\* C3: an update with a valid payload whose id has a stored record when it
\* writes (as it has when no other request runs beside it) is answered 200;
\* the record under the id is then the payload plus ISBN = id, old fields not
\* in the payload gone, other records unchanged.
C3_UpdateReplacesWholeRecord ==
    (last.op = "update" /\ last.id \in DOMAIN pre /\ ValidPayload(last.body)) =>
        /\ last.response.statusCode = 200
        /\ last.id \in DOMAIN table
        /\ IsBookOf(table[last.id], last.body, last.id)
        /\ last.response.body = table[last.id]
        /\ OthersUnchanged(pre, table, last.id)

\* an update whose old record had a field the new payload lacks, another
\* record being stored beside it
C3_Witness ==
    /\ last.op = "update"
    /\ last.response.statusCode = 200
    /\ last.id \in DOMAIN pre
    /\ "pages" \in DOMAIN pre[last.id]
    /\ "pages" \notin DOMAIN Submitted(last.body)
    /\ Cardinality(DOMAIN table) = 2
    /\ ~overlapped

\* C4: an update that finds no record stored under its id when it checks is
\* answered 404 whatever the body is, at that very step; the table is
\* unchanged and nothing is left in flight to write under the id.
C4_UpdateMissingIs404 ==
    [][\A id \in PathIds, body \in Bodies :
        (id \notin DOMAIN table /\ UpdateBookFetch(id, body)) =>
            /\ last'.op = "update"
            /\ last'.id = id
            /\ last'.body = body
            /\ last'.response.statusCode = 404
            /\ last'.response.body = [error |-> "not found"]
            /\ table' = table
            /\ pending' = pending]_vars

\* an update of a deleted id, its body not even parseable
C4_Witness ==
    /\ last.op = "update"
    /\ last.response.statusCode = 404
    /\ last.id \in gone
    /\ ~last.body.closed
    /\ last.id \notin DOMAIN pre
    /\ DOMAIN table # {}

\* C5: a delete is answered 204 or 404.  Answered 204 it leaves no record
\* under the id and every other record as it was, so that a get of the id is
\* then answered 404; answered 404 it changes nothing and no record was stored
\* under the id.  With one request at a time it is answered 204 exactly when
\* a record is stored under the id.
C5_DeleteRemovesExactlyOne ==
    last.op = "delete" =>
        /\ last.response.statusCode = 204 =>
            /\ last.id \notin DOMAIN table
            /\ OthersUnchanged(pre, table, last.id)
            /\ getBook(table, last.id).response.statusCode = 404
        /\ last.response.statusCode # 204 =>
            /\ last.response.statusCode = 404
            /\ last.response.body = [error |-> "not found"]
            /\ table = pre
            /\ last.id \notin DOMAIN pre
        /\ ~overlapped => (last.response.statusCode = 204 <=> last.id \in DOMAIN pre)

\* a delete answered 204 that leaves another record stored
C5_Witness ==
    /\ last.op = "delete"
    /\ last.response.statusCode = 204
    /\ last.id \in DOMAIN pre
    /\ DOMAIN table # {}
    /\ ~overlapped

\* C6: listBook answers 200 with exactly the records stored, each once, and
\* leaves the table alone; after a sequence of requests, one at a time, in
\* which N creates and M deletes were answered successfully, these are N-M.
C6_ListReturnsAllStored ==
    /\ ~overlapped => Cardinality(DOMAIN table) + nDeleted = nCreated
    /\ last.op = "list" =>
        /\ last.response.statusCode = 200
        /\ table = pre
        /\ last.response.body = {table[k] : k \in DOMAIN table}
        /\ Cardinality(last.response.body) = Cardinality(DOMAIN table)
        /\ ~overlapped => Cardinality(last.response.body) + nDeleted = nCreated

\* a list after two creates and one delete
C6_Witness ==
    /\ last.op = "list"
    /\ nCreated = 2
    /\ nDeleted = 1
    /\ Cardinality(last.response.body) = 1
    /\ ~overlapped

\* a create, or an update that found a record under its id
CreateOrUpdateOfStored ==
    \/ last.op = "create"
    \/ last.op = "update" /\ (last.id \in DOMAIN pre \/ last.response.statusCode # 404)

\* C7: a create, or an update of a stored id, whose body is rejected is
\* answered 400 and writes nothing: an object missing required fields gives
\* an errors array with one entry per violated field, unparseable text gives
\* an error field; neither is left unhandled.
C7_RejectedBodyIs400 ==
    (CreateOrUpdateOfStored /\ ~ValidPayload(last.body)) =>
        /\ last.response.statusCode = 400
        /\ last.response.headers = headers
        /\ table = pre
        /\ ~last.body.closed => DOMAIN last.response.body = {"error"}
        /\ last.body.closed => DOMAIN last.response.body = {"errors"}
        /\ IsObjectText(last.body) =>
            LET errors == last.response.body["errors"]
                bad == Violations(Submitted(last.body))
            IN  /\ Len(errors) = Cardinality(bad)
                /\ {errors[i][1] : i \in 1..Len(errors)} = bad

\* an update of a stored id rejected with four violations
C7_Witness ==
    /\ last.op = "update"
    /\ last.id \in DOMAIN pre
    /\ last.response.statusCode = 400
    /\ IsObjectText(last.body)
    /\ Len(last.response.body["errors"]) = 4

\* C8: every stored record has the five required fields and an ISBN equal to
\* its key, and no request changes the ISBN of a stored record.
C8_StoredRecordsComplete ==
    /\ \A k \in DOMAIN table :
        /\ {"author", "title", "description", "publication_date", "available"}
              \subseteq DOMAIN table[k]
        /\ \A f \in {"author", "title", "description", "publication_date", "available"} :
              table[k][f] # "#null"
        /\ "ISBN" \in DOMAIN table[k]
        /\ table[k]["ISBN"] = k
    /\ \A k \in DOMAIN table \cap DOMAIN pre : table[k]["ISBN"] = pre[k]["ISBN"]

\* an update answered 200 whose body carried the ISBN of another stored record
C8_Witness ==
    /\ last.op = "update"
    /\ last.response.statusCode = 200
    /\ "ISBN" \in DOMAIN Submitted(last.body)
    /\ Submitted(last.body)["ISBN"] # last.id
    /\ Submitted(last.body)["ISBN"] \in DOMAIN table

\* C9: once a delete of an id was answered 204, no record is stored under
\* that id at any later point, under every interleaving of requests.
C9_DeletedStaysDeleted ==
    \A id \in gone : id \notin DOMAIN table

\* C10 as stated: no request makes more than one storage call.
C10_OneStorageCall ==
    last.calls > 0 => last.calls = 1

\* C10 amended: create, get and list make exactly one storage call when they
\* reach storage; update and delete make one when the id is not stored (the
\* get of fetchBookById), update also when the body is rejected, and two (the
\* get, then the put or the delete) when they succeed.
C10_StorageCallsPerRequest ==
    /\ last.op = "create" => last.calls = IF last.response.statusCode = 201 THEN 1 ELSE 0
    /\ last.op \in {"get", "list"} => last.calls = 1
    /\ last.op = "update" => last.calls = IF last.response.statusCode = 200 THEN 2 ELSE 1
    /\ last.op = "delete" => last.calls = IF last.response.statusCode = 204 THEN 2 ELSE 1

\* an update answered 200 after its get and its put
C10_Witness ==
    /\ last.op = "update"
    /\ last.response.statusCode = 200
    /\ last.calls = 2

====
